---- MODULE Spec2Model ----
(***************************************************************************)
(* Model of src/js/app.js: the TodoManager store, the TodoItem entity,     *)
(* Utils.validateTodo and the StorageService adapter over localStorage.    *)
(*                                                                         *)
(* Strings are sequences of one-character strings, so that trim,           *)
(* toLowerCase, includes and length are computed, not assumed.             *)
(* Timestamps are integers read from a millisecond clock `now`             *)
(* (toISOString is fixed-width, so string order is time order).            *)
(* An id `todo_<Date.now()>_<random>` is the pair <<time, random>>.        *)
(***************************************************************************)
EXTENDS Integers, Sequences, FiniteSets, TLC

\* ---------------------------------------------------------------------------
\* Program constant and model bounds
\* ---------------------------------------------------------------------------

MAX_TODO_LENGTH == 100

MaxTodos == 2

MaxTime == 2

MaxRand == 1

MaxFail == 1

\* ---------------------------------------------------------------------------
\* Strings
\* ---------------------------------------------------------------------------

Rep(c, n) == [i \in 1..n |-> c]

RECURSIVE TrimStart(_)
TrimStart(s) ==
  IF s # <<>> /\ Head(s) = " " THEN TrimStart(Tail(s)) ELSE s

RECURSIVE TrimEnd(_)
TrimEnd(s) ==
  IF s # <<>> /\ s[Len(s)] = " " THEN TrimEnd(SubSeq(s, 1, Len(s) - 1)) ELSE s

\* String.prototype.trim
Trim(s) == TrimEnd(TrimStart(s))

LowerChar(c) == CASE c = "A" -> "a" [] c = "B" -> "b" [] OTHER -> c

\* String.prototype.toLowerCase
ToLowerCase(s) == [i \in 1..Len(s) |-> LowerChar(s[i])]

\* String.prototype.includes
Includes(s, sub) ==
  \E i \in 0..(Len(s) - Len(sub)) : \A j \in 1..Len(sub) : s[i + j] = sub[j]

\* findIndex answering the last position instead of -1 (what splice(-1, 1)
\* and at(-1) address)
FindIndex_lastWhenAbsent(seq, id) ==
  IF \E i \in 1..Len(seq) : seq[i].id = id
  THEN CHOOSE i \in 1..Len(seq) :
         /\ seq[i].id = id
         /\ \A j \in 1..(i - 1) : seq[j].id # id
  ELSE Len(seq)

\* Array.prototype.findIndex (0 when absent, 1-based otherwise)
FindIndex(seq, id) ==
  IF \E i \in 1..Len(seq) : seq[i].id = id
  THEN CHOOSE i \in 1..Len(seq) :
         /\ seq[i].id = id
         /\ \A j \in 1..(i - 1) : seq[j].id # id
  ELSE 0

\* splice(index) without its count removes everything from index on
Splice1_toEnd(seq, index) == SubSeq(seq, 1, index - 1)

\* Array.prototype.splice(index, 1)
Splice1(seq, index) == SubSeq(seq, 1, index - 1) \o SubSeq(seq, index + 1, Len(seq))

\* ---------------------------------------------------------------------------
\* Utils
\* ---------------------------------------------------------------------------

NoId == <<>>

\* Utils.generateId: `todo_${Date.now()}_${Math.random()...}`
generateId(t, r) == <<t, r>>

\* validateTodo testing the raw text for emptiness
validateTodo_rawEmpty(text) ==
  LET trimmed == Trim(text) IN
  IF text = <<>>
  THEN [isValid |-> FALSE, error |-> "EmptyInput", text |-> <<>>]
  ELSE IF Len(trimmed) > MAX_TODO_LENGTH
       THEN [isValid |-> FALSE, error |-> "TooLong", text |-> <<>>]
       ELSE [isValid |-> TRUE, error |-> "none", text |-> trimmed]

\* validateTodo with >= for >
validateTodo_offByOne(text) ==
  LET trimmed == Trim(text) IN
  IF trimmed = <<>>
  THEN [isValid |-> FALSE, error |-> "EmptyInput", text |-> <<>>]
  ELSE IF Len(trimmed) >= MAX_TODO_LENGTH
       THEN [isValid |-> FALSE, error |-> "TooLong", text |-> <<>>]
       ELSE [isValid |-> TRUE, error |-> "none", text |-> trimmed]

\* Utils.validateTodo. The two error messages are named by their kind:
\*   "A tarefa nao pode estar vazia."              -> EmptyInput
\*   "A tarefa deve ter no maximo 100 caracteres." -> TooLong
validateTodo(text) ==
  LET trimmed == Trim(text) IN
  IF trimmed = <<>>
  THEN [isValid |-> FALSE, error |-> "EmptyInput", text |-> <<>>]
  ELSE IF Len(trimmed) > MAX_TODO_LENGTH
       THEN [isValid |-> FALSE, error |-> "TooLong", text |-> <<>>]
       ELSE [isValid |-> TRUE, error |-> "none", text |-> trimmed]

\* ---------------------------------------------------------------------------
\* TodoItem
\* ---------------------------------------------------------------------------

\* constructor(text, id = null); t1 and t2 are its two clock reads, newId the
\* value generateId() would return
TodoItem(text, id, newId, t1, t2) ==
  [id |-> IF id = NoId THEN newId ELSE id,
   text |-> Trim(text),
   completed |-> FALSE,
   createdAt |-> t1,
   updatedAt |-> t2]

\* toggleComplete without its second assignment
toggleComplete_keepsUpdatedAt(todo, t) ==
  [todo EXCEPT !.completed = ~@]

toggleComplete(todo, t) ==
  [todo EXCEPT !.completed = ~@, !.updatedAt = t]

\* updateText assigning the text before it validates
updateText_assignFirst(todo, newText, t) ==
  LET validation == validateTodo(newText) IN
  [thrown |-> validation.error,
   todo |-> [todo EXCEPT !.text = Trim(newText), !.updatedAt = t]]

\* updateText: throws the validation error before touching the entity; todo is
\* the entity as the call leaves it
updateText(todo, newText, t) ==
  LET validation == validateTodo(newText) IN
  IF ~validation.isValid
  THEN [thrown |-> validation.error, todo |-> todo]
  ELSE [thrown |-> "none",
        todo |-> [todo EXCEPT !.text = validation.text, !.updatedAt = t]]

\* toJSON leaving updatedAt out of the record
toJSON_noUpdatedAt(todo) ==
  [id |-> todo.id, text |-> todo.text, completed |-> todo.completed,
   createdAt |-> todo.createdAt]

toJSON(todo) ==
  [id |-> todo.id, text |-> todo.text, completed |-> todo.completed,
   createdAt |-> todo.createdAt, updatedAt |-> todo.updatedAt]

\* A parsed storage item is a function from the fields it has to their values.
\* An item without a "text" string (null, {}, a number for text) makes
\* data.text.trim() throw a TypeError.
fromJSONThrows(data) == "text" \notin DOMAIN data

\* fromJSON(data), for an item on which it does not throw; t is the clock
Field(data, f, default) == IF f \in DOMAIN data THEN data[f] ELSE default

\* fromJSON without its assignment to todo.completed
fromJSON_dropsCompleted(data, newId, t) ==
  LET todo == TodoItem(data.text, Field(data, "id", NoId), newId, t, t) IN
  [todo EXCEPT !.createdAt = Field(data, "createdAt", t),
               !.updatedAt = Field(data, "updatedAt", t)]

fromJSON(data, newId, t) ==
  LET todo == TodoItem(data.text, Field(data, "id", NoId), newId, t, t) IN
  [todo EXCEPT !.completed = Field(data, "completed", FALSE),
               !.createdAt = Field(data, "createdAt", t),
               !.updatedAt = Field(data, "updatedAt", t)]

\* ---------------------------------------------------------------------------
\* StorageService over localStorage[CONFIG.STORAGE_KEY]
\* ---------------------------------------------------------------------------
\* The stored value is one of
\*   kind "absent"  : getItem returns null
\*   kind "empty"   : the empty string
\*   kind "garbage" : a non-empty string JSON.parse rejects
\*   kind "scalar"  : JSON text of a value without .map (null, a number, {})
\*   kind "array"   : JSON text of an array; val is the sequence of its items

Blob(kind, val) == [kind |-> kind, val |-> val]

\* parsed.length, the number of items the map callback is called on
Items(blob) == IF blob.kind = "array" THEN 1..Len(blob.val) ELSE {}

\* JSON.stringify(todos.map(todo => todo.toJSON()))
Stringify(todos) == Blob("array", [i \in 1..Len(todos) |-> toJSON(todos[i])])

\* getTodos catching inside the map callback would keep the items that decode
getTodos_keepsDecodable(blob, t, rs) ==
  IF blob.kind \in {"absent", "empty"}
  THEN [todos |-> <<>>, toasts |-> 0]
  ELSE IF blob.kind \in {"garbage", "scalar"}
       THEN [todos |-> <<>>, toasts |-> 1]
       ELSE LET decodes(data) == ~fromJSONThrows(data)
                kept == SelectSeq(blob.val, decodes)
            IN [todos |-> [i \in 1..Len(kept) |->
                             fromJSON(kept[i], generateId(t, rs[i]), t)],
                toasts |-> IF Len(kept) = Len(blob.val) THEN 0 ELSE 1]

\* StorageService.getTodos; rs[i] is the random part generateId would draw for
\* item i. toasts counts the Utils.showToast calls of the catch block.
getTodos(blob, t, rs) ==
  IF blob.kind \in {"absent", "empty"}
  THEN [todos |-> <<>>, toasts |-> 0]
  ELSE IF \/ blob.kind \in {"garbage", "scalar"}
          \/ \E i \in 1..Len(blob.val) : fromJSONThrows(blob.val[i])
       THEN [todos |-> <<>>, toasts |-> 1]
       ELSE [todos |-> [i \in 1..Len(blob.val) |->
                          fromJSON(blob.val[i], generateId(t, rs[i]), t)],
             toasts |-> 0]

\* saveTodos writing the visible tasks of a filtered list would drop the last
\* task here
saveTodos_dropsLast(todos, stored, writeOk) ==
  IF writeOk
  THEN [storage |-> Stringify(SubSeq(todos, 1, Len(todos) - 1)),
        thrown |-> "none", toasts |-> 0]
  ELSE [storage |-> stored, thrown |-> "none", toasts |-> 1]

\* saveTodos without its try/catch
saveTodos_noCatch(todos, stored, writeOk) ==
  IF writeOk
  THEN [storage |-> Stringify(todos), thrown |-> "none", toasts |-> 0]
  ELSE [storage |-> stored, thrown |-> "PersistenceWriteFailure", toasts |-> 0]

\* StorageService.saveTodos; writeOk is whether localStorage.setItem returns
\* normally. The catch block swallows the exception.
StorageService_saveTodos(todos, stored, writeOk) ==
  IF writeOk
  THEN [storage |-> Stringify(todos), thrown |-> "none", toasts |-> 0]
  ELSE [storage |-> stored, thrown |-> "none", toasts |-> 1]

\* ---------------------------------------------------------------------------
\* TodoManager
\* ---------------------------------------------------------------------------

VARIABLES
  todos,          \* this.todos
  filteredTodos,  \* this.filteredTodos
  currentFilter,  \* this.currentFilter
  currentSearch,  \* this.currentSearch
  editingTodoId,  \* this.editingTodoId
  storage,        \* localStorage[CONFIG.STORAGE_KEY]
  now,            \* the millisecond clock
  failures,       \* how many localStorage.setItem calls have thrown so far
  last,           \* the last call on the collection (load, add, update, toggle,
                  \* delete): its arguments (text once the call has read it)
                  \* and how it ended
  ui              \* the page as the UIController left it: the search input,
                  \* the debounce timer, the rendered list and counters

vars == <<todos, filteredTodos, currentFilter, currentSearch, editingTodoId,
          storage, now, failures, last, ui>>

\* applyFilters
applyFilters(ts, search, filter) ==
  LET matches(todo) == Includes(ToLowerCase(todo.text), search)
      pending(todo) == ~todo.completed
      completed(todo) == todo.completed
      searched == IF search # <<>> THEN SelectSeq(ts, matches) ELSE ts
  IN CASE filter = "pending" -> SelectSeq(searched, pending)
       [] filter = "completed" -> SelectSeq(searched, completed)
       [] OTHER -> searched

Call(op, text, id, err, write, toasts, ret) ==
  [op |-> op, text |-> text, id |-> id, err |-> err, write |-> write,
   toasts |-> toasts, ret |-> ret]

WriteTag(writeOk) == IF writeOk THEN "ok" ELSE "failed"

\* saveTodos and applyFilters undoing the change when the write fails
SaveAndFilter_rollsBack(op, text, id, ts, writeOk, ret) ==
  LET sv == StorageService_saveTodos(ts, storage, writeOk) IN
  /\ writeOk \/ failures < MaxFail
  /\ failures' = IF writeOk THEN failures ELSE failures + 1
  /\ todos' = IF writeOk THEN ts ELSE todos
  /\ storage' = sv.storage
  /\ filteredTodos' = applyFilters(todos', currentSearch, currentFilter)
  /\ last' = Call(op, text, id, sv.thrown, WriteTag(writeOk), sv.toasts, ret)

\* What follows this.todos = ts in addTodo, updateTodo, toggleTodo, deleteTodo:
\* this.saveTodos(); this.applyFilters();
SaveAndFilter(op, text, id, ts, writeOk, ret) ==
  LET sv == StorageService_saveTodos(ts, storage, writeOk) IN
  /\ writeOk \/ failures < MaxFail
  /\ failures' = IF writeOk THEN failures ELSE failures + 1
  /\ todos' = ts
  /\ storage' = sv.storage
  /\ IF sv.thrown = "none"
     THEN /\ filteredTodos' = applyFilters(ts, currentSearch, currentFilter)
          /\ last' = Call(op, text, id, "none", WriteTag(writeOk), sv.toasts, ret)
     ELSE /\ filteredTodos' = filteredTodos
          /\ last' = Call(op, text, id, sv.thrown, WriteTag(writeOk), sv.toasts, <<>>)

\* A call that throws before saveTodos and applyFilters, leaving this.todos = ts
Throw(op, text, id, err, ts) ==
  /\ todos' = ts
  /\ last' = Call(op, text, id, err, "none", 0, <<>>)
  /\ UNCHANGED <<filteredTodos, storage, now, failures>>

\* ---------------------------------------------------------------------------
\* Inputs
\* ---------------------------------------------------------------------------

Times == 0..MaxTime

Rands == 1..MaxRand

Ids == {generateId(t, r) : t \in Times, r \in Rands}

\* Raw task texts: "", " ", " Ab ", 100 characters between two spaces, and
\* 101 characters
Texts ==
  { <<>>, <<" ">>, <<" ", "A", "b", " ">>,
    <<" ">> \o Rep("b", MAX_TODO_LENGTH) \o <<" ">>,
    Rep("b", MAX_TODO_LENGTH + 1) }

\* Raw search terms: "" and " AB"
SearchTerms == { <<>>, <<" ", "A", "B">> }

\* Ids the edit button is pressed on
EditIds == {generateId(0, 1)}

\* Ids the calls are made with: the one stored earlier and those generated now
CallIds == {generateId(0, 1)} \cup {generateId(1, r) : r \in Rands}

Filters == {"all", "pending", "completed"}

\* Values found under the storage key when the page is first opened: nothing,
\* "", text that is not JSON, JSON that is no array, an array with an item
\* that has no text, an item that has nothing but an untrimmed text, and a
\* task stored a millisecond ago
OldRecord == [id |-> generateId(0, 1), text |-> <<"A", "b">>, completed |-> TRUE,
              createdAt |-> 0, updatedAt |-> 0]

InitBlobs ==
  { Blob("absent", <<>>),
    Blob("empty", <<>>),
    Blob("garbage", <<>>),
    Blob("scalar", <<>>),
    Blob("array", <<[text |-> <<"A", "b">>], [completed |-> TRUE]>>),
    Blob("array", <<[text |-> <<" ", "A", "b", " ">>]>>),
    Blob("array", <<OldRecord>>) }

\* Values that decode although no save of this program wrote them: two
\* records with one id, a text of one space, a text of 101 characters, a
\* record without createdAt, one without updatedAt, one with neither
LoadBlobs ==
  { Blob("absent", <<>>),
    Blob("array", <<OldRecord>>),
    Blob("array", <<OldRecord, [OldRecord EXCEPT !.text = <<"b">>]>>),
    Blob("array", <<[text |-> <<" ">>]>>),
    Blob("array", <<[text |-> Rep("b", MAX_TODO_LENGTH + 1)]>>),
    Blob("array", <<[text |-> <<"A", "b">>, updatedAt |-> 0]>>),
    Blob("array", <<[text |-> <<"A", "b">>, createdAt |-> 0]>>),
    Blob("array", <<[text |-> <<"A", "b">>, completed |-> TRUE]>>) }

\* ---------------------------------------------------------------------------
\* The page
\* ---------------------------------------------------------------------------

DEBOUNCE_DELAY == 300

\* No timeout is pending
NoTimer == <<>>

\* The page with no controller attached. When logging is set, calls keeps the
\* time of the controller's last setSearch call and fired the times of the
\* last two of them that the debounce timeout made.
NoUI ==
  [searchInput |-> <<>>, timer |-> NoTimer, todoList |-> <<>>,
   counts |-> [total |-> 0, pending |-> 0, completed |-> 0],
   editFormHidden |-> TRUE, logging |-> FALSE, calls |-> <<>>, fired |-> <<>>]

\* ---------------------------------------------------------------------------
\* Operations
\* ---------------------------------------------------------------------------

\* new TodoManager(): the constructor and loadTodos
Construct(rs) ==
  LET loaded == getTodos(storage, now, rs) IN
  /\ todos' = loaded.todos
  /\ currentFilter' = "all"
  /\ currentSearch' = <<>>
  /\ editingTodoId' = NoId
  /\ filteredTodos' = applyFilters(loaded.todos, <<>>, "all")
  /\ last' = Call("load", <<>>, NoId, "none", "none", loaded.toasts, <<>>)

\* The store is built for the first time on one of the values of blobs
InitStore(blobs) ==
  /\ storage \in blobs
  /\ now = 1
  /\ failures = 0
  /\ \E rs \in [Items(storage) -> Rands] :
       LET loaded == getTodos(storage, now, rs) IN
       /\ todos = loaded.todos
       /\ currentFilter = "all"
       /\ currentSearch = <<>>
       /\ editingTodoId = NoId
       /\ filteredTodos = applyFilters(loaded.todos, <<>>, "all")
       /\ last = Call("load", <<>>, NoId, "none", "none", loaded.toasts, <<>>)

\* The store is built on its own and called directly: no controller is
\* attached and the page stays as it is
InitFrom(blobs) == InitStore(blobs) /\ ui = NoUI

Init == InitFrom(InitBlobs)

\* The page is opened again on the same storage
Reload ==
  /\ \E rs \in [Items(storage) -> Rands] : Construct(rs)
  /\ UNCHANGED <<storage, now, failures, ui>>

\* addTodo with push for unshift
addTodo_push(text, r, d, writeOk) ==
  LET validation == validateTodo(text) IN
  IF ~validation.isValid
  THEN /\ Throw("add", text, NoId, validation.error, todos)
       /\ UNCHANGED <<currentFilter, currentSearch, editingTodoId>>
  ELSE LET todo == TodoItem(validation.text, NoId, generateId(now, r), now, now + d) IN
       /\ d = 0 \/ now + d <= MaxTime
       /\ now' = now + d
       /\ SaveAndFilter("add", text, NoId, todos \o <<todo>>, writeOk, <<todo>>)
       /\ UNCHANGED <<currentFilter, currentSearch, editingTodoId>>

addTodo(text, r, d, writeOk) ==
  LET validation == validateTodo(text) IN
  IF ~validation.isValid
  THEN /\ Throw("add", text, NoId, validation.error, todos)
       /\ UNCHANGED <<currentFilter, currentSearch, editingTodoId>>
  ELSE LET todo == TodoItem(validation.text, NoId, generateId(now, r), now, now + d) IN
       /\ d = 0 \/ now + d <= MaxTime
       /\ now' = now + d
       /\ SaveAndFilter("add", text, NoId, <<todo>> \o todos, writeOk, <<todo>>)
       /\ UNCHANGED <<currentFilter, currentSearch, editingTodoId>>

\* The statements of updateTodo(id, newText); op names the caller in `last`.
\* They do not mention this.editingTodoId.
UpdateCall(op, id, newText, writeOk) ==
  LET index == FindIndex(todos, id) IN
  IF index = 0
  THEN /\ Throw(op, <<>>, id, "NotFound", todos)
       /\ UNCHANGED <<currentFilter, currentSearch>>
  ELSE LET upd == updateText(todos[index], newText, now) IN
       IF upd.thrown # "none"
       THEN /\ Throw(op, newText, id, upd.thrown,
                      [todos EXCEPT ![index] = upd.todo])
            /\ UNCHANGED <<currentFilter, currentSearch>>
       ELSE /\ SaveAndFilter(op, newText, id,
                             [todos EXCEPT ![index] = upd.todo], writeOk, <<>>)
            /\ UNCHANGED <<currentFilter, currentSearch, now>>

\* updateTodo ending with this.stopEditing() when it succeeds
updateTodo_stopsEditing(id, newText, writeOk) ==
  /\ UpdateCall("update", id, newText, writeOk)
  /\ editingTodoId' = IF last'.err = "none" THEN NoId ELSE editingTodoId

updateTodo(id, newText, writeOk) ==
  /\ UpdateCall("update", id, newText, writeOk)
  /\ UNCHANGED editingTodoId

\* toggleTodo putting a new TodoItem in the place of the one it found
toggleTodo_replaces(id, writeOk) ==
  LET index == FindIndex(todos, id) IN
  IF index = 0
  THEN /\ Throw("toggle", <<>>, id, "NotFound", todos)
       /\ UNCHANGED <<currentFilter, currentSearch, editingTodoId>>
  ELSE /\ SaveAndFilter("toggle", <<>>, id,
                        [todos EXCEPT ![index] =
                           [toggleComplete(@, now) EXCEPT !.createdAt = now]],
                        writeOk, <<>>)
       /\ UNCHANGED <<currentFilter, currentSearch, editingTodoId, now>>

toggleTodo(id, writeOk) ==
  LET index == FindIndex(todos, id) IN
  IF index = 0
  THEN /\ Throw("toggle", <<>>, id, "NotFound", todos)
       /\ UNCHANGED <<currentFilter, currentSearch, editingTodoId>>
  ELSE /\ SaveAndFilter("toggle", <<>>, id,
                        [todos EXCEPT ![index] = toggleComplete(@, now)],
                        writeOk, <<>>)
       /\ UNCHANGED <<currentFilter, currentSearch, editingTodoId, now>>

deleteTodo(id, writeOk) ==
  LET index == FindIndex(todos, id) IN
  IF index = 0
  THEN /\ Throw("delete", <<>>, id, "NotFound", todos)
       /\ UNCHANGED <<currentFilter, currentSearch, editingTodoId>>
  ELSE /\ SaveAndFilter("delete", <<>>, id, Splice1(todos, index), writeOk, <<>>)
       /\ UNCHANGED <<currentFilter, currentSearch, editingTodoId, now>>

\* setSearch calling this.saveTodos() like the methods that change the tasks
setSearch_saves(searchTerm) ==
  /\ currentSearch' = Trim(ToLowerCase(searchTerm))
  /\ storage' = StorageService_saveTodos(todos, storage, TRUE).storage
  /\ filteredTodos' = applyFilters(todos, currentSearch', currentFilter)
  /\ UNCHANGED <<todos, currentFilter, editingTodoId, now, failures, last>>

setSearch(searchTerm) ==
  /\ currentSearch' = Trim(ToLowerCase(searchTerm))
  /\ filteredTodos' = applyFilters(todos, currentSearch', currentFilter)
  /\ UNCHANGED <<todos, currentFilter, editingTodoId, storage, now, failures,
                 last>>

\* setFilter without its applyFilters call
setFilter_stale(filter) ==
  /\ currentFilter' = filter
  /\ UNCHANGED <<todos, filteredTodos, currentSearch, editingTodoId, storage, now,
                 failures, last>>

setFilter(filter) ==
  /\ currentFilter' = filter
  /\ filteredTodos' = applyFilters(todos, currentSearch, filter)
  /\ UNCHANGED <<todos, currentSearch, editingTodoId, storage, now, failures,
                 last>>

\* getStats counting the tasks on display
getStats_ofView ==
  LET isCompleted(todo) == todo.completed
      total == Len(filteredTodos)
      completed == Len(SelectSeq(filteredTodos, isCompleted))
      pending == total - completed
  IN [total |-> total, pending |-> pending, completed |-> completed]

\* getStats(): what it returns in the current state
getStats ==
  LET isCompleted(todo) == todo.completed
      total == Len(todos)
      completed == Len(SelectSeq(todos, isCompleted))
      pending == total - completed
  IN [total |-> total, pending |-> pending, completed |-> completed]

startEditing(id) ==
  /\ editingTodoId' = id
  /\ UNCHANGED <<todos, filteredTodos, currentFilter, currentSearch, storage, now,
                 failures, last>>

stopEditing ==
  /\ editingTodoId' = NoId
  /\ UNCHANGED <<todos, filteredTodos, currentFilter, currentSearch, storage, now,
                 failures, last>>

Present(id) == FindIndex(todos, id) # 0

\* getEditingTodo(): the position of the task found, 0 for null or undefined
getEditingTodo ==
  IF editingTodoId = NoId THEN 0 ELSE FindIndex(todos, editingTodoId)

\* ---------------------------------------------------------------------------
\* UIController
\* ---------------------------------------------------------------------------

\* createTodoElement: what the element made for a task shows of it, its
\* data-todo-id, its text (escaped by sanitizeHTML and parsed back by
\* innerHTML) and whether it has the class completed
createTodoElement(todo) ==
  [id |-> todo.id, text |-> todo.text, completed |-> todo.completed]

\* renderTodos: the list is emptied and gets an element for each task of ts
renderTodos(ts) == [i \in 1..Len(ts) |-> createTodoElement(ts[i])]

\* render skipping updateStats
render_listOnly(u) == [u EXCEPT !.todoList = renderTodos(filteredTodos')]

\* render() at the end of a handler: renderTodos on this.filteredTodos and
\* updateStats on getStats(), both as the handler's store call left them
render(u) ==
  [u EXCEPT !.todoList = renderTodos(filteredTodos'), !.counts = getStats']

\* new UIController(todoManager): debouncedSearch has no timeout pending, the
\* search input is empty, the edit form is hidden, and render() has run
UIController ==
  [NoUI EXCEPT !.todoList = renderTodos(filteredTodos), !.counts = getStats]

\* TodoApp.init(): the page is opened for the first time on one of blobs
TodoApp_init(blobs) == InitStore(blobs) /\ ui = UIController

\* The last two entries of a sequence
Last2(s) == IF Len(s) > 2 THEN Tail(s) ELSE s

\* handleAddTodo: the add form is submitted with value in its input; r is the
\* random part of the new id
handleAddTodo(value, r, writeOk) ==
  LET text == Trim(value) IN
  /\ text # <<>>
  /\ addTodo(text, r, 0, writeOk)
  /\ ui' = IF last'.err = "none" THEN render(ui) ELSE ui

\* handleEditTodo: the edit form is submitted with value in its input. It
\* returns early on a blank value or when no task is being edited;
\* hideEditForm, which calls stopEditing, and render are reached when
\* updateTodo returns and skipped when it throws.
handleEditTodo(value, writeOk) ==
  LET newText == Trim(value)
      editingTodo == getEditingTodo
  IN /\ newText # <<>>
     /\ editingTodo # 0
     /\ UpdateCall("submit", todos[editingTodo].id, newText, writeOk)
     /\ editingTodoId' = IF last'.err = "none" THEN NoId ELSE editingTodoId
     /\ ui' = IF last'.err = "none"
              THEN render([ui EXCEPT !.editFormHidden = TRUE])
              ELSE ui

\* hideEditForm
hideEditForm ==
  /\ stopEditing
  /\ ui' = [ui EXCEPT !.editFormHidden = TRUE]

\* handleCancelEdit
handleCancelEdit == hideEditForm

\* handleSearch(searchTerm) called on the page u: setSearch, then render
handleSearch(searchTerm, u) ==
  /\ setSearch(searchTerm)
  /\ ui' = render([u EXCEPT !.calls = IF u.logging THEN <<now>> ELSE @])

\* handleClearSearch: the input is emptied and handleSearch('') called at once
handleClearSearch == handleSearch(<<>>, [ui EXCEPT !.searchInput = <<>>])

\* debounce calling setTimeout without the delay
debouncedSearch_noDelay(value) ==
  /\ value # ui.searchInput
  /\ ui' = [ui EXCEPT !.searchInput = value,
                      !.timer = [due |-> now, term |-> value]]
  /\ UNCHANGED <<todos, filteredTodos, currentFilter, currentSearch,
                 editingTodoId, storage, now, failures, last>>

\* The input event of the search input, whose content has become value:
\* this.debouncedSearch(e.target.value), that is clearTimeout on the timeout
\* that is pending and setTimeout of handleSearch(value) in DEBOUNCE_DELAY
debouncedSearch(value) ==
  /\ value # ui.searchInput
  /\ ui' = [ui EXCEPT !.searchInput = value,
                      !.timer = [due |-> now + DEBOUNCE_DELAY, term |-> value]]
  /\ UNCHANGED <<todos, filteredTodos, currentFilter, currentSearch,
                 editingTodoId, storage, now, failures, last>>

\* The timeout set by debouncedSearch expires, at its due time or later:
\* handleSearch is called with the value of that input event
Timeout ==
  /\ ui.timer # NoTimer
  /\ now >= ui.timer.due
  /\ handleSearch(ui.timer.term,
                  [ui EXCEPT !.timer = NoTimer,
                             !.fired = IF ui.logging THEN Last2(@ \o <<now>>)
                                       ELSE @])

\* handleFilterChange
handleFilterChange(filter) ==
  /\ setFilter(filter)
  /\ ui' = render(ui)

\* handleToggleTodo
handleToggleTodo(todoId, writeOk) ==
  /\ toggleTodo(todoId, writeOk)
  /\ ui' = IF last'.err = "none" THEN render(ui) ELSE ui

\* handleStartEdit: it returns early when no task has the id
handleStartEdit(todoId) ==
  /\ Present(todoId)
  /\ startEditing(todoId)
  /\ ui' = [ui EXCEPT !.editFormHidden = FALSE]

\* handleDeleteTodo when the confirm dialog is accepted
handleDeleteTodo(todoId, writeOk) ==
  /\ deleteTodo(todoId, writeOk)
  /\ ui' = IF last'.err = "none" THEN render(ui) ELSE ui

\* handleKeyboard on the Escape key: the edit form is hidden if it shows,
\* otherwise the search is cleared if the search input has content
handleKeyboard ==
  IF ~ui.editFormHidden
  THEN hideEditForm
  ELSE /\ ui.searchInput # <<>>
       /\ handleClearSearch

\* A millisecond passes between two calls
Tick ==
  /\ now < MaxTime
  /\ now' = now + 1
  /\ UNCHANGED <<todos, filteredTodos, currentFilter, currentSearch,
                 editingTodoId, storage, failures, last, ui>>

IdsOf(ts) == {ts[i].id : i \in 1..Len(ts)}

\* The calls the environment makes on the store, leaving the page alone: texts, ids, random parts of a new id,
\* clock advances inside the call and write outcomes are drawn from the sets
\* given. A call that throws
\* before it reads an argument is made with one value of that argument.
Add(cap, texts, rands, delays, writes) ==
  /\ \E text \in texts :
       IF validateTodo(text).isValid
       THEN /\ Len(todos) < cap
            /\ \E r \in rands, d \in delays, writeOk \in writes :
                 addTodo(text, r, d, writeOk)
       ELSE addTodo(text, 1, 0, TRUE)
  /\ UNCHANGED ui

Update(ids, texts, writes) ==
  /\ \E id \in ids :
       IF Present(id)
       THEN \E newText \in texts :
              IF validateTodo(newText).isValid
              THEN \E writeOk \in writes : updateTodo(id, newText, writeOk)
              ELSE updateTodo(id, newText, TRUE)
       ELSE updateTodo(id, <<>>, TRUE)
  /\ UNCHANGED ui

Toggle(ids, writes) ==
  /\ \E id \in ids :
       IF Present(id)
       THEN \E writeOk \in writes : toggleTodo(id, writeOk)
       ELSE toggleTodo(id, TRUE)
  /\ UNCHANGED ui

Delete(ids, writes) ==
  /\ \E id \in ids :
       IF Present(id)
       THEN \E writeOk \in writes : deleteTodo(id, writeOk)
       ELSE deleteTodo(id, TRUE)
  /\ UNCHANGED ui

SetSearch == (\E searchTerm \in SearchTerms : setSearch(searchTerm)) /\ UNCHANGED ui

SetFilter == (\E filter \in Filters : setFilter(filter)) /\ UNCHANGED ui

StartEditing == (\E id \in EditIds : startEditing(id)) /\ UNCHANGED ui

StopEditing == stopEditing /\ UNCHANGED ui

\* ---------------------------------------------------------------------------
\* Spec: every call with valid and invalid arguments, under every search,
\* filter and editing slot. The calls fall within one millisecond, new ids
\* get one random part (tasks added here share their id, the task stored
\* earlier has another), and every write succeeds.
\* ---------------------------------------------------------------------------

AddTodo == Add(MaxTodos, Texts, {1}, {0}, {TRUE})

UpdateTodo == Update(CallIds, Texts, {TRUE})

ToggleTodo == Toggle(CallIds, {TRUE})

DeleteTodo == Delete(CallIds, {TRUE})

Next ==
  \/ AddTodo
  \/ UpdateTodo
  \/ ToggleTodo
  \/ DeleteTodo
  \/ SetSearch
  \/ SetFilter
  \/ StartEditing
  \/ StopEditing

Spec == Init /\ [][Next]_vars

\* ---------------------------------------------------------------------------
\* SpecStore: the store and its storage. Writes may fail, the page is opened
\* again on what was stored; texts are valid and the filter varies.
\* ---------------------------------------------------------------------------

ValidTexts == {text \in Texts : validateTodo(text).isValid}

StoreAdd == Add(MaxTodos, ValidTexts, Rands, {0}, BOOLEAN)

StoreUpdate == Update(IdsOf(todos), ValidTexts, BOOLEAN)

StoreToggle == Toggle(IdsOf(todos), BOOLEAN)

StoreDelete == Delete(IdsOf(todos), BOOLEAN)

NextStore ==
  \/ Reload
  \/ StoreAdd
  \/ StoreUpdate
  \/ StoreToggle
  \/ StoreDelete
  \/ SetFilter

SpecStore == Init /\ [][NextStore]_vars

\* ---------------------------------------------------------------------------
\* SpecOrder: a longer collection while the editing slot is set and cleared;
\* arguments are valid, every write succeeds, and there is no search or
\* filter.
\* ---------------------------------------------------------------------------

MaxOrderTodos == 3

\* Random parts enough for tasks with different ids made in one millisecond
OrderRands == 1..(MaxRand + 1)

OrderAdd == Add(MaxOrderTodos, ValidTexts, OrderRands, {0}, {TRUE})

OrderToggle == Toggle(IdsOf(todos), {TRUE})

OrderDelete == Delete(IdsOf(todos), {TRUE})

NextOrder ==
  \/ OrderAdd
  \/ OrderToggle
  \/ OrderDelete
  \/ StartEditing
  \/ StopEditing

SpecOrder == Init /\ [][NextOrder]_vars

\* ---------------------------------------------------------------------------
\* SpecClock: the clock advances between the calls and inside them.
\* ---------------------------------------------------------------------------

ClockAdd == Add(MaxTodos, ValidTexts, Rands, {0, 1}, {TRUE})

ClockUpdate == Update(IdsOf(todos), ValidTexts, {TRUE})

ClockToggle == Toggle(IdsOf(todos), {TRUE})

ClockDelete == Delete(IdsOf(todos), {TRUE})

NextClock ==
  \/ ClockAdd
  \/ ClockUpdate
  \/ ClockToggle
  \/ ClockDelete
  \/ Tick

SpecClock == Init /\ [][NextClock]_vars

\* ---------------------------------------------------------------------------
\* SpecEdit: the editing slot. startEditing is called with ids that are in
\* the collection and ids that are not, the text of a task is changed by
\* updateTodo and by the edit form, tasks are added and deleted. The calls
\* other than the edit form's are made on the store and render nothing.
\* ---------------------------------------------------------------------------

EditAdd == Add(MaxTodos, ValidTexts, {1}, {0}, {TRUE})

EditUpdate == Update(CallIds, Texts, {TRUE})

EditDelete == Delete(IdsOf(todos), {TRUE})

EditStart == (\E id \in CallIds : startEditing(id)) /\ UNCHANGED ui

HandleEditTodo == \E value \in Texts : handleEditTodo(value, TRUE)

NextEdit ==
  \/ EditAdd
  \/ EditUpdate
  \/ EditDelete
  \/ EditStart
  \/ StopEditing
  \/ HandleEditTodo

\* The page is opened on one of InitBlobs or on two records with one id
EditBlobs ==
  InitBlobs \cup {Blob("array", <<OldRecord, [OldRecord EXCEPT !.text = <<"b">>]>>)}

SpecEdit == TodoApp_init(EditBlobs) /\ [][NextEdit]_vars

\* ---------------------------------------------------------------------------
\* SpecLoad: the page is opened on stored values of every decodable shape and
\* opened again on what the calls have stored; arguments are valid and every
\* write succeeds.
\* ---------------------------------------------------------------------------

LoadAdd == Add(MaxTodos, ValidTexts, Rands, {0}, {TRUE})

LoadUpdate == Update(IdsOf(todos), ValidTexts, {TRUE})

LoadToggle == Toggle(IdsOf(todos), {TRUE})

LoadDelete == Delete(CallIds, {TRUE})

NextLoad ==
  \/ Reload
  \/ LoadAdd
  \/ LoadUpdate
  \/ LoadToggle
  \/ LoadDelete

SpecLoad == InitFrom(LoadBlobs) /\ [][NextLoad]_vars

\* ---------------------------------------------------------------------------
\* SpecSearch: the search input. Its content changes, the clear button and
\* the Escape key are pressed, with the edit form showing or hidden, while
\* time passes and the debounce timeout expires. The tasks stay as loaded.
\* ---------------------------------------------------------------------------

\* How many debounce delays the clock runs for
MaxDelays == 3

\* Contents of the search input: "", " AB" and "b"
SearchInputs == SearchTerms \cup {<<"b">>}

SearchBlobs == {Blob("absent", <<>>), Blob("array", <<OldRecord>>)}

\* A third of the debounce delay passes, or all of it
Elapse ==
  /\ \E d \in {DEBOUNCE_DELAY \div 3, DEBOUNCE_DELAY} :
       /\ now + d <= 1 + MaxDelays * DEBOUNCE_DELAY
       /\ now' = now + d
  /\ UNCHANGED <<todos, filteredTodos, currentFilter, currentSearch,
                 editingTodoId, storage, failures, last, ui>>

SearchInput == \E value \in SearchInputs : debouncedSearch(value)

ClearSearch == handleClearSearch

Escape == handleKeyboard

\* The edit button of a rendered task is pressed
StartEdit == \E i \in 1..Len(ui.todoList) : handleStartEdit(ui.todoList[i].id)

NextSearch ==
  \/ SearchInput
  \/ Timeout
  \/ ClearSearch
  \/ Escape
  \/ StartEdit
  \/ Elapse

\* The page is opened for the first time and the times of the setSearch
\* calls are kept
InitSearch ==
  /\ InitStore(SearchBlobs)
  /\ ui = [UIController EXCEPT !.logging = TRUE]

SpecSearch == InitSearch /\ [][NextSearch]_vars

\* ---------------------------------------------------------------------------
\* SpecUI: every handler of the controller. Forms are submitted with valid,
\* blank and too long texts, the buttons of the rendered tasks are pressed,
\* the search input and the filter change, and the debounce delay passes.
\* Every write succeeds.
\* ---------------------------------------------------------------------------

\* How many debounce delays the clock runs for
MaxUIDelays == 1

\* The page is opened for the first time
UIBlobs == {Blob("absent", <<>>)}

\* Contents of the add and edit inputs: " ", " Ab " and 101 characters
UITexts ==
  { <<" ">>, <<" ", "A", "b", " ">>, Rep("b", MAX_TODO_LENGTH + 1) }

\* Contents of the search input: "" and " C", which no task matches
UISearchInputs == { <<>>, <<" ", "C">> }

\* The debounce delay passes while a timeout is pending
UIElapse ==
  /\ ui.timer # NoTimer
  /\ now + DEBOUNCE_DELAY <= 1 + MaxUIDelays * DEBOUNCE_DELAY
  /\ now' = now + DEBOUNCE_DELAY
  /\ UNCHANGED <<todos, filteredTodos, currentFilter, currentSearch,
                 editingTodoId, storage, failures, last, ui>>

\* The add form is submitted
AddSubmit ==
  \E value \in UITexts :
    /\ validateTodo(value).isValid => Len(todos) < MaxTodos
    /\ handleAddTodo(value, 1, TRUE)

\* The edit form is submitted
EditSubmit == \E value \in UITexts : handleEditTodo(value, TRUE)

CancelEdit == handleCancelEdit

\* The complete button of a rendered task is pressed
ToggleClick ==
  \E i \in 1..Len(ui.todoList) : handleToggleTodo(ui.todoList[i].id, TRUE)

\* The delete button of a rendered task is pressed and the dialog accepted
DeleteClick ==
  \E i \in 1..Len(ui.todoList) : handleDeleteTodo(ui.todoList[i].id, TRUE)

\* The filter select changes to all or to completed
FilterChange == \E filter \in {"all", "completed"} : handleFilterChange(filter)

UISearchInput == \E value \in UISearchInputs : debouncedSearch(value)

NextUI ==
  \/ AddSubmit
  \/ EditSubmit
  \/ CancelEdit
  \/ ToggleClick
  \/ StartEdit
  \/ DeleteClick
  \/ FilterChange
  \/ UISearchInput
  \/ Timeout
  \/ ClearSearch
  \/ Escape
  \/ UIElapse

SpecUI == TodoApp_init(UIBlobs) /\ [][NextUI]_vars

\* ---------------------------------------------------------------------------
\* Properties
\* ---------------------------------------------------------------------------

Mutations == {"add", "update", "toggle", "delete"}

Fields == {"id", "text", "completed", "createdAt", "updatedAt"}

\* The step is a call on the collection (a search, filter, editing or clock
\* step changes none of these)
IsCall ==
  \/ last' # last
  \/ todos' # todos
  \/ storage' # storage
  \/ failures' # failures

Blank(text) == \A i \in 1..Len(text) : text[i] = " "

\* The view the specification describes: tasks whose text contains the search
\* term, case-insensitively, and whose status the filter admits
Visible(todo, search, filter) ==
  /\ Includes(ToLowerCase(todo.text), ToLowerCase(search))
  /\ filter = "pending" => ~todo.completed
  /\ filter = "completed" => todo.completed

DerivedView(ts, search, filter) ==
  LET Test(todo) == Visible(todo, search, filter) IN SelectSeq(ts, Test)

\* C1: after every successful add, update, toggle or delete whose storage write
\* succeeded, the stored value is the serialization of the whole collection:
\* one record per task, in order, with the task's five fields, and decoding it
\* (at any time, whatever ids would be generated) yields the collection.
C1_StoredIsWholeCollection ==
  (last.op \in Mutations /\ last.err = "none" /\ last.write = "ok") =>
    /\ storage.kind = "array"
    /\ Len(storage.val) = Len(todos)
    /\ \A i \in 1..Len(todos) :
         /\ DOMAIN storage.val[i] = Fields
         /\ \A f \in Fields : storage.val[i][f] = todos[i][f]
    /\ \A t \in Times, rs \in [Items(storage) -> Rands] :
         getTodos(storage, t, rs) = [todos |-> todos, toasts |-> 0]

C1_Witness ==
  /\ last.op = "update" /\ last.err = "none" /\ last.write = "ok"
  /\ Len(todos) = 2
  /\ failures = 1
  /\ \E i \in 1..2 : todos[i].completed /\ todos[i].updatedAt > todos[i].createdAt

\* C3: in every reachable state the derived view is the collection filtered by
\* the search term (case-insensitive substring) and by the status filter
\* ("all" filters nothing), in collection order.
C3_ViewIsFilteredCollection ==
  /\ currentFilter \in Filters
  /\ filteredTodos = DerivedView(todos, currentSearch, currentFilter)

C3_Witness ==
  /\ currentSearch # <<>>
  /\ currentFilter = "completed"
  /\ Len(todos) = 2
  /\ Len(filteredTodos) = 1
  /\ \E i \in 1..2 : todos[i].completed /\ todos[i] # filteredTodos[1]


ViewState == <<currentFilter, currentSearch, editingTodoId>>

\* C4: add with an empty or whitespace-only text fails with EmptyInput and
\* leaves the collection, the derived view, the view state and the stored
\* value unchanged.
C4_BlankAddChangesNothing ==
  [][(IsCall /\ last'.op = "add" /\ Blank(last'.text)) =>
       /\ last'.err = "EmptyInput"
       /\ UNCHANGED <<todos, filteredTodos, ViewState, storage>>]_vars

C4_Witness ==
  /\ last.op = "add" /\ last.text = <<" ">> /\ last.err = "EmptyInput"
  /\ Len(todos) = 1
  /\ currentSearch # <<>> /\ currentFilter = "pending" /\ editingTodoId # NoId

\* C5: the length limit is exact, for add and for update of an existing task:
\* a text of trimmed length 100 is accepted and stored, one of trimmed length
\* 101 fails with TooLong and leaves the collection unchanged.
C5_LimitIsExact ==
  [][(/\ IsCall
      /\ \/ last'.op = "add"
         \/ last'.op = "update" /\ last'.id \in IdsOf(todos))
     =>
       /\ Len(Trim(last'.text)) = 100 =>
            /\ last'.err = "none"
            /\ \E i \in 1..Len(todos') :
                 /\ todos'[i].text = Trim(last'.text)
                 /\ last'.op = "update" => todos'[i].id = last'.id
       /\ Len(Trim(last'.text)) = 101 =>
            /\ last'.err = "TooLong"
            /\ todos' = todos]_vars

C5_Witness ==
  /\ last.op = "update" /\ last.err = "TooLong"
  /\ Len(Trim(last.text)) = MAX_TODO_LENGTH + 1
  /\ \E i \in 1..Len(todos) :
       todos[i].id = last.id /\ Len(todos[i].text) = MAX_TODO_LENGTH

\* What each mutation does to the collection
Carried(op, text, id, before, after) ==
  LET index == CHOOSE i \in 1..Len(before) :
                 before[i].id = id /\ \A j \in 1..(i - 1) : before[j].id # id
  IN CASE op = "add" ->
            Len(after) = Len(before) + 1 /\ after[1].text = Trim(text)
       [] op = "update" ->
            Len(after) = Len(before) /\ after[index].text = Trim(text)
       [] op = "toggle" ->
            Len(after) = Len(before)
            /\ after[index].completed = ~before[index].completed
       [] op = "delete" -> Len(after) = Len(before) - 1

\* C6: when the storage write of an add, update, toggle or delete fails, the
\* call still returns normally: the collection carries the change, the derived
\* view is recomputed from it, one warning is shown and the stored value is
\* left as it was.
C6_WriteFailureIsSwallowed ==
  [][(IsCall /\ last'.op \in Mutations /\ last'.write = "failed") =>
       /\ last'.err = "none"
       /\ Carried(last'.op, last'.text, last'.id, todos, todos')
       /\ filteredTodos' = DerivedView(todos', currentSearch', currentFilter')
       /\ last'.toasts = 1
       /\ UNCHANGED <<storage, ViewState>>]_vars

C6_Witness ==
  /\ last.op = "toggle" /\ last.write = "failed" /\ last.err = "none"
  /\ currentFilter = "completed"
  /\ filteredTodos # <<>>
  /\ storage.kind = "array" /\ storage # Stringify(todos)

\* C8: toggle, update and delete called with an id that is not in the
\* collection fail with NotFound and leave the collection, the derived view,
\* the view state and the stored value unchanged.
C8_UnknownIdChangesNothing ==
  [][(/\ IsCall
      /\ last'.op \in {"toggle", "update", "delete"}
      /\ last'.id \notin IdsOf(todos))
     =>
       /\ last'.err = "NotFound"
       /\ UNCHANGED <<todos, filteredTodos, ViewState, storage>>]_vars

C8_Witness ==
  /\ last.op = "delete" /\ last.err = "NotFound"
  /\ Len(todos) = 2
  /\ last.id \notin IdsOf(todos)
  /\ editingTodoId # NoId /\ currentSearch # <<>>

\* C9: update of an existing task with a text that is empty after trimming or
\* longer than 100 fails with the validation error and leaves the task, the
\* rest of the collection, the derived view and the stored value unchanged.
C9_InvalidUpdateChangesNothing ==
  [][(/\ IsCall
      /\ last'.op = "update"
      /\ last'.id \in IdsOf(todos)
      /\ Blank(last'.text) \/ Len(Trim(last'.text)) > 100)
     =>
       /\ last'.err = IF Blank(last'.text) THEN "EmptyInput" ELSE "TooLong"
       /\ UNCHANGED <<todos, filteredTodos, ViewState, storage>>]_vars

C9_Witness ==
  /\ last.op = "update" /\ last.err = "EmptyInput" /\ last.text = <<" ">>
  /\ Len(todos) = 2
  /\ last.id \in IdsOf(todos)
  /\ storage = Stringify(todos)

\* A stored value that is there but is not a sequence of task records
Undecodable(blob) ==
  \/ blob.kind \in {"empty", "garbage", "scalar"}
  \/ blob.kind = "array" /\ \E i \in 1..Len(blob.val) : "text" \notin DOMAIN blob.val[i]

\* C7 as stated: whenever the stored value is present but not decodable, load
\* returns the empty collection, shows exactly one warning and does not throw.
C7_AsStated ==
  (last.op = "load" /\ Undecodable(storage)) =>
    /\ todos = <<>>
    /\ last.err = "none"
    /\ last.toasts = 1

\* C7 (amended): load of a present, undecodable value returns the empty
\* collection without throwing, and the store starts empty and accepts calls;
\* it shows exactly one warning when the value is a non-empty string and none
\* when it is the empty string.
C7_UndecodableLoadsEmpty ==
  (last.op = "load" /\ Undecodable(storage)) =>
    /\ todos = <<>>
    /\ filteredTodos = <<>>
    /\ last.err = "none"
    /\ last.toasts = IF storage.kind = "empty" THEN 0 ELSE 1
    /\ ENABLED addTodo(<<"A", "b">>, 1, 0, TRUE)

C7_Witness ==
  /\ last.op = "load" /\ last.toasts = 1
  /\ storage.kind = "array" /\ Len(storage.val) = 2
  /\ Undecodable(storage)
  /\ todos = <<>> /\ filteredTodos = <<>>

\* C2: add of a text whose trimmed length is between 1 and 100 succeeds and
\* returns a task with the trimmed text and completed = false; that task is
\* the head of the collection and the tasks that were there follow it, in
\* their order and unchanged.
C2_AddPrepends ==
  [][(IsCall /\ last'.op = "add" /\ Len(Trim(last'.text)) \in 1..100) =>
       /\ last'.err = "none"
       /\ Len(last'.ret) = 1
       /\ last'.ret[1].text = Trim(last'.text)
       /\ last'.ret[1].completed = FALSE
       /\ todos' = <<last'.ret[1]>> \o todos]_vars

C2_Witness ==
  /\ last.op = "add" /\ last.err = "none"
  /\ Len(todos) = 3
  /\ todos[1] = last.ret[1]
  /\ todos[2] # todos[3] /\ todos[2].completed /\ todos[2].text # todos[1].text

\* C10: delete of an id that is in the collection removes one task with that
\* id and nothing else: the other tasks stay, unchanged and in the same order,
\* and the collection is one shorter.
C10_DeleteRemovesOne ==
  [][(IsCall /\ last'.op = "delete" /\ last'.id \in IdsOf(todos)) =>
       /\ last'.err = "none"
       /\ Len(todos') = Len(todos) - 1
       /\ \E k \in 1..Len(todos) :
            /\ todos[k].id = last'.id
            /\ \A i \in 1..Len(todos') :
                 todos'[i] = IF i < k THEN todos[i] ELSE todos[i + 1]]_vars

C10_Witness ==
  /\ last.op = "delete" /\ last.err = "none"
  /\ Len(todos) = 2
  /\ todos[1] # todos[2]
  /\ last.id \notin IdsOf(todos)
  /\ generateId(0, 1) \in IdsOf(todos)

\* C11: delete(id) followed immediately by delete(id) again fails with
\* NotFound on the second call.
C11_SecondDeleteNotFound ==
  [][(/\ last.op = "delete" /\ last.err = "none"
      /\ IsCall /\ last'.op = "delete" /\ last'.id = last.id)
     => last'.err = "NotFound"]_vars

\* The task a successful toggle, update or delete call finds, by its position
\* before the call
Found == FindIndex(todos, last'.id)

\* C12 as stated: the second of two consecutive toggle(id) calls flips
\* completed back and strictly advances the task's updatedAt.
C12_AsStated ==
  [][(/\ last.op = "toggle" /\ last.err = "none"
      /\ IsCall /\ last'.op = "toggle" /\ last'.err = "none"
      /\ last'.id = last.id)
     =>
       /\ todos'[Found].completed = ~todos[Found].completed
       /\ todos'[Found].updatedAt > todos[Found].updatedAt]_vars

\* C12: every toggle(id) call on a task of the collection negates completed,
\* so that two consecutive calls leave it as it was, and sets the task's
\* updatedAt to the clock's reading at the call: updatedAt is later than
\* before exactly when the clock has advanced since the task's last update.
C12_ToggleTwice ==
  [][(IsCall /\ last'.op = "toggle" /\ last'.id \in IdsOf(todos)) =>
       /\ last'.err = "none"
       /\ todos'[Found].completed = ~todos[Found].completed
       /\ todos'[Found].updatedAt = now
       /\ (todos'[Found].updatedAt > todos[Found].updatedAt)
            <=> (now > todos[Found].updatedAt)]_vars

\* A task added by this page is pending again after toggles, the last of them
\* in a later millisecond than its creation
C12_Witness ==
  /\ last.op = "toggle" /\ last.err = "none"
  /\ \E i \in 1..Len(todos) :
       /\ todos[i].id = last.id /\ todos[i].id[1] = todos[i].createdAt
       /\ todos[i].createdAt = 1
       /\ ~todos[i].completed
       /\ todos[i].updatedAt = now /\ now > todos[i].createdAt

\* C13: stats() has total = pending + completed, total is the size of the
\* whole collection, pending and completed count its tasks by their completed
\* flag, and a setSearch or setFilter call (any step that is not a call on
\* the collection) does not change the result, whatever it does to the
\* derived view.
C13_StatsOfWholeCollection ==
  /\ [](/\ getStats.total = getStats.pending + getStats.completed
        /\ getStats.total = Len(todos)
        /\ getStats.pending =
             Cardinality({i \in 1..Len(todos) : ~todos[i].completed})
        /\ getStats.completed =
             Cardinality({i \in 1..Len(todos) : todos[i].completed}))
  /\ [][~IsCall => getStats' = getStats]_vars

\* A completed and a pending task, of which the filter and the search show
\* none
C13_Witness ==
  /\ getStats = [total |-> 2, pending |-> 1, completed |-> 1]
  /\ currentFilter = "completed" /\ currentSearch # <<>>
  /\ filteredTodos = <<>>

\* C14 as stated, its last part: a successful update(id, text) on the id
\* being edited returns the editing slot to Idle.
C14_AsStated ==
  [][(/\ IsCall /\ last'.op = "update" /\ last'.err = "none"
      /\ last'.id = editingTodoId)
     => editingTodoId' = NoId]_vars

\* C14: the editing slot is Idle or Editing(id); startEditing(id) sets it to
\* Editing(id) from any state, whether id is in the collection or not and
\* whatever was being edited; stopEditing sets it to Idle; add, update,
\* toggle and delete leave it as it is, update of the id being edited
\* included; the edit form's submit handler, which updates the task being
\* edited, returns it to Idle when that update succeeds and leaves it when
\* the update fails.
C14_EditingSlot ==
  /\ [](/\ editingTodoId \in {NoId} \cup CallIds
        /\ \A id \in CallIds : ENABLED (startEditing(id) /\ editingTodoId' = id)
        /\ ENABLED (stopEditing /\ editingTodoId' = NoId))
  /\ [][/\ (IsCall /\ last'.op \in Mutations) => UNCHANGED editingTodoId
        /\ (IsCall /\ last'.op = "submit") =>
             /\ last'.id = editingTodoId
             /\ editingTodoId' =
                  IF last'.err = "none" THEN NoId ELSE editingTodoId]_vars

\* updateTodo has changed the text of the task being edited, which is still
\* being edited
C14_Witness ==
  /\ last.op = "update" /\ last.err = "none" /\ last.write = "ok"
  /\ last.id = editingTodoId
  /\ \E i \in 1..Len(todos) :
       todos[i].id = last.id /\ todos[i].text = Trim(last.text)

\* C15: no two tasks of the collection have the same id.
C15_IdsUnique ==
  \A i, j \in 1..Len(todos) : i # j => todos[i].id # todos[j].id

\* C16: every task of the collection has a text that is trimmed, non-empty
\* and at most 100 characters long.
C16_TextsValid ==
  \A i \in 1..Len(todos) :
    /\ todos[i].text = Trim(todos[i].text)
    /\ todos[i].text # <<>>
    /\ Len(todos[i].text) <= MAX_TODO_LENGTH

\* C17: every task of the collection has updatedAt >= createdAt.
C17_UpdatedNotBeforeCreated ==
  \A i \in 1..Len(todos) : todos[i].updatedAt >= todos[i].createdAt

\* C18: decoding the serialized collection gives the collection back, field
\* for field and in the same order, without a warning, at whatever time and
\* with whatever random draws the decoding is done.
C18_RoundTrip ==
  \A t \in Times, rs \in [1..Len(todos) -> Rands] :
    getTodos(Stringify(todos), t, rs) = [todos |-> todos, toasts |-> 0]

\* The page was opened again on a stored collection of two tasks, one added
\* by the page before and one completed, one of them changed after it was
\* created
C18_Witness ==
  /\ last.op = "load" /\ Len(todos) = 2
  /\ storage = Stringify(todos)
  /\ \E i \in 1..2 : todos[i].id[1] = 1 /\ todos[i].createdAt = 1
  /\ \E i \in 1..2 : todos[i].completed
  /\ \E i \in 1..2 : todos[i].updatedAt # todos[i].createdAt

\* The task at position k keeps every field but those of changed
KeepsBut(k, changed) ==
  /\ DOMAIN todos'[k] = DOMAIN todos[k]
  /\ \A f \in DOMAIN todos[k] \ changed : todos'[k][f] = todos[k][f]

\* C19: a successful toggle(id) or update(id, text) changes one task, the
\* one it finds by id, at its place: toggle only its completed and updatedAt,
\* update only its text and updatedAt; every other task and the order stay.
\* No call changes the id or createdAt of a task that stays in the
\* collection: add puts its task before the others, delete takes one out,
\* a call that fails changes nothing.
C19_MutatesOneTaskInPlace ==
  [][(IsCall /\ last'.op \in Mutations) =>
       CASE last'.err # "none" -> todos' = todos
         [] last'.op = "toggle" ->
              /\ Len(todos') = Len(todos)
              /\ \A k \in 1..Len(todos) :
                   KeepsBut(k, IF k = Found THEN {"completed", "updatedAt"} ELSE {})
         [] last'.op = "update" ->
              /\ Len(todos') = Len(todos)
              /\ \A k \in 1..Len(todos) :
                   KeepsBut(k, IF k = Found THEN {"text", "updatedAt"} ELSE {})
         [] last'.op = "add" -> Tail(todos') = todos
         [] last'.op = "delete" ->
              /\ Len(todos') = Len(todos) - 1
              /\ \A k \in 1..Len(todos') :
                   todos'[k] = todos[IF k < Found THEN k ELSE k + 1]]_vars

\* update has changed the text of a task created earlier, next to a task
\* whose updatedAt is older
C19_Witness ==
  /\ last.op = "update" /\ last.err = "none" /\ Len(todos) = 2
  /\ \E i, j \in 1..2 :
       /\ i # j
       /\ todos[i].id = last.id /\ todos[j].id # last.id
       /\ todos[i].text = Trim(last.text)
       /\ todos[i].createdAt < todos[i].updatedAt
       /\ todos[i].updatedAt = now
       /\ todos[j].updatedAt < now

\* C20: a setSearch, setFilter, startEditing or stopEditing call (a step that
\* changes the search term, the filter or the editing id) writes nothing to
\* storage and changes nothing of the collection; a stored array holds
\* records of the five task fields and nothing else.
C20_ViewOpsDoNotPersist ==
  /\ [](storage.kind = "array" =>
          \A i \in 1..Len(storage.val) : DOMAIN storage.val[i] \subseteq Fields)
  /\ [][ViewState' # ViewState => UNCHANGED <<todos, storage, failures>>]_vars

\* A search, a filter and an editing id are set over a stored collection of
\* two tasks, of which they hide one
C20_Witness ==
  /\ currentSearch # <<>> /\ currentFilter = "pending" /\ editingTodoId # NoId
  /\ Len(todos) = 2 /\ Len(filteredTodos) = 1
  /\ last.write = "ok" /\ storage = Stringify(todos)

\* C25: when a deleteTodo call removes the task the editing slot points at,
\* the slot keeps its id and getEditingTodo finds no task; and whenever the
\* slot holds an id that getEditingTodo finds no task for, the edit form's
\* submit returns before it calls the store, whatever its input holds, so
\* that nothing is modified, created, shown or stored.
C25_DeletedWhileEditing ==
  /\ [][(IsCall /\ last'.op = "delete" /\ last'.err = "none"
            /\ last'.id = editingTodoId)
          => (editingTodoId' = editingTodoId /\ getEditingTodo' = 0)]_vars
  /\ []((editingTodoId # NoId /\ getEditingTodo = 0)
          => \A value \in Texts : ~ENABLED handleEditTodo(value, TRUE))

\* The state right after a load of an array whose records all have a text
LoadedRecords ==
  /\ last.op = "load"
  /\ storage.kind = "array"
  /\ \A i \in 1..Len(storage.val) : ~fromJSONThrows(storage.val[i])

\* The task made of a stored record has the defaults for what the record
\* lacks: completed false, a missing timestamp the time of the load
HasDefaults(data, todo) ==
  /\ "completed" \notin DOMAIN data => todo.completed = FALSE
  /\ "createdAt" \notin DOMAIN data => todo.createdAt = now
  /\ "updatedAt" \notin DOMAIN data => todo.updatedAt = now

C24_FailedWriteIsCaughtUp ==
  [][(IsCall /\ last'.op \in Mutations /\ last'.err = "none") =>
       /\ Carried(last'.op, last'.text, last'.id, todos, todos')
       /\ last'.write = "failed" => storage' = storage
       /\ last'.write = "ok" => storage' = Stringify(todos')]_vars

\* After a write that failed, a call has stored a collection of two tasks
C24_Witness ==
  /\ failures = 1
  /\ last.op \in Mutations
  /\ last.write = "ok"
  /\ Len(todos) = MaxTodos
  /\ storage = Stringify(todos)

\* C26: right after a load the collection is empty or has one task for every
\* stored record, in the stored order, each with the text of its record
\* without the whitespace around it and with its id when the record has one;
\* and when a stored record has no text the collection is empty and the
\* warning was shown once.
C26_LoadIsAllOrNothing ==
  last.op = "load" =>
    /\ \/ todos = <<>>
       \/ /\ storage.kind = "array"
          /\ Len(todos) = Len(storage.val)
          /\ \A i \in 1..Len(todos) :
               /\ ~fromJSONThrows(storage.val[i])
               /\ todos[i].text = Trim(storage.val[i].text)
               /\ "id" \in DOMAIN storage.val[i] => todos[i].id = storage.val[i].id
    /\ (storage.kind = "array"
        /\ \E i \in 1..Len(storage.val) : fromJSONThrows(storage.val[i]))
       => (todos = <<>> /\ last.toasts = 1)

\* An array of a record that decodes and one that has no text has been loaded
C26_Witness ==
  /\ last.op = "load"
  /\ storage.kind = "array"
  /\ Len(storage.val) = 2
  /\ ~fromJSONThrows(storage.val[1])
  /\ fromJSONThrows(storage.val[2])
  /\ todos = <<>>
  /\ filteredTodos = <<>>
  /\ last.toasts = 1

\* C21 as stated: a setSearch call of the controller, whatever made it, comes
\* at least a debounce delay after the call before it.
C21_AsStated ==
  [][((ui'.calls # ui.calls \/ ui'.fired # ui.fired) /\ ui.calls # <<>>)
       => now' - ui.calls[1] >= DEBOUNCE_DELAY]_vars

\* C21: two setSearch calls made by the debounce timeout are at least a
\* debounce delay apart.
C21_DebouncedCallsApart ==
  Len(ui.fired) = 2 => ui.fired[2] - ui.fired[1] >= DEBOUNCE_DELAY

\* The timeout has expired twice, the second time after the input was cleared
C21_Witness ==
  /\ Len(ui.fired) = 2
  /\ ui.calls = <<ui.fired[2]>>
  /\ ui.searchInput = <<>>
  /\ currentSearch = <<"a", "b">>

\* C23: whenever no debounce timeout is pending, the store's search term is
\* the content of the search input, trimmed and in lower case.
C23_SearchFollowsInput ==
  ui.timer = NoTimer => currentSearch = Trim(ToLowerCase(ui.searchInput))

\* C27: after every handler of the controller, whether its store call
\* returned or threw, the rendered list has an element for each task of the
\* derived view, in its order and showing its id, text and completion, and
\* the counters show getStats().
C27_PageShowsStore ==
  /\ ui.todoList = renderTodos(filteredTodos)
  /\ ui.counts = getStats

\* Of two tasks with different ids the filter shows the completed one, the
\* counters count both, a search is pending, and the last submit was refused
C27_Witness ==
  /\ Len(todos) = 2
  /\ todos[1].id # todos[2].id
  /\ currentFilter = "completed"
  /\ currentSearch = <<>>
  /\ ui.timer # NoTimer
  /\ Len(ui.todoList) = 1
  /\ ui.todoList[1].id = todos[1].id
  /\ ui.counts = [total |-> 2, pending |-> 1, completed |-> 1]
  /\ last.err = "TooLong"

====
